---- MODULE Spec2Model ----
(***************************************************************************)
(* A model of the DNS wire codec of src/encoder.rs and src/proto.rs: the   *)
(* Bit Cursor (BitEncoder / BitDecoder), the Byte Cursor (Encoder /        *)
(* Decoder), and the Name, Type, Class, Question, Record and Message       *)
(* codecs built on them.  Bytes are the integers 0..255, byte buffers and  *)
(* strings are sequences of bytes, and every operation is an operator that *)
(* returns the cursor it leaves behind together with its result.           *)
(***************************************************************************)
EXTENDS Integers, Sequences, FiniteSets, TLC

VARIABLES
    build,      \* "debug" (overflow checks on) or "release" (overflow checks off)
    pc,         \* the position of the driver that calls the codec
    benc,       \* the BitEncoder: [data, offset]
    bdec,       \* the BitDecoder: [data, offset]
    script,     \* the bit fields <<value, width>> a caller writes and reads back
    readback,   \* the values the BitDecoder returned so far
    bres,       \* the last Bit Cursor call and its result
    val,        \* the in-memory value handed to encode
    enc,        \* the Encoder: [offset, buf], and whether a write panicked
    dec,        \* the Decoder: [buf, offset, labels]
    res         \* the result of the last Byte Cursor / codec call

vars == <<build, pc, benc, bdec, script, readback, bres, val, enc, dec, res>>
bitVars == <<benc, bdec, script, readback, bres>>
codecVars == <<val, enc, dec, res>>

(***************************************************************************)
(* Bounds of the model.                                                    *)
(***************************************************************************)
MaxWidth == 10          \* bit widths 0..MaxWidth are tried (u8 in the code)
MaxNameLen == 3         \* names over {'a', '.'} of up to this many bytes
MaxItems == 2           \* names and pointers written to one buffer
MaxQuestions == 1       \* questions in one Message
MaxAnswers == 1         \* answer records in one Message
MaxBuf == 4             \* bytes an Encoder's buffer grows to under random access
MaxSlice == 3           \* bytes in one slice handed to write_slice
MaxDatagrams == 2       \* datagrams the UDP server receives in one run
MaxLabelBuf == 5        \* bytes in a buffer read label by label

BitValues == {85, 255}  \* the u8 values written through the Bit Cursor
Builds == {"debug", "release"}

(***************************************************************************)
(* u8 arithmetic.                                                          *)
(***************************************************************************)
RECURSIVE BitAnd(_, _)
BitAnd(a, b) ==
    IF a = 0 \/ b = 0 THEN 0
    ELSE (a % 2) * (b % 2) + 2 * BitAnd(a \div 2, b \div 2)

RECURSIVE BitOr(_, _)
BitOr(a, b) ==
    IF a = 0 THEN b
    ELSE IF b = 0 THEN a
    ELSE (IF a % 2 = 1 \/ b % 2 = 1 THEN 1 ELSE 0) + 2 * BitOr(a \div 2, b \div 2)

\* `x << n` on u8: a shift amount of 8 or more overflows.  With overflow
\* checks the program panics; without them the amount is taken modulo 8.
ShlOverflows(n) == n >= 8
Shl8(x, n) == (x * 2^(n % 8)) % 256
Shr8(x, n) == x \div 2^(n % 8)

(***************************************************************************)
(* Results.  Ok(v) and Err(e) are Rust's Result; Panic is an abort.        *)
(***************************************************************************)
Ok(v) == [tag |-> "Ok", v |-> v]
Err(e) == [tag |-> "Err", e |-> e]
Panic == [tag |-> "Panic"]
Unit == "()"

BitsWidth(w) == [kind |-> "BitsWidth", width |-> w]
BitsWrite(o, w) == [kind |-> "BitsWrite", offset |-> o, width |-> w]
BitsRead(o, w) == [kind |-> "BitsRead", offset |-> o, width |-> w]
ReadErr(o, l, n) == [kind |-> "Read", offset |-> o, read_len |-> l, buf_len |-> n]
DecodeUtf8 == [kind |-> "DecodeUtf8"]

(***************************************************************************)
(* Bit Cursor.                                                             *)
(***************************************************************************)
BitEncoder_new(data) == [data |-> data, offset |-> 0]

\* Fault variant of BitEncoder::write: the check of offset + width against
\* the 8 bits of the byte is missing.
BitEncoder_write_unchecked(be, value, width) ==
    IF width = 0 \/ width > 8 THEN [r |-> Err(BitsWidth(width)), be |-> be]
    ELSE IF ShlOverflows(width) /\ build = "debug" THEN [r |-> Panic, be |-> be]
    ELSE LET mask == Shl8(1, width) - 1
             shifted_value == Shl8(BitAnd(value, mask), 8 - be.offset - width)
         IN  [r |-> Ok(Unit),
              be |-> [data |-> BitOr(be.data, shifted_value),
                      offset |-> be.offset + width]]

\* BitEncoder::write: the result and the cursor after the call.
BitEncoder_write(be, value, width) ==
    IF width = 0 \/ width > 8 THEN [r |-> Err(BitsWidth(width)), be |-> be]
    ELSE IF be.offset + width > 8
    THEN [r |-> Err(BitsWrite(be.offset, width)), be |-> be]
    ELSE IF ShlOverflows(width) /\ build = "debug" THEN [r |-> Panic, be |-> be]
    ELSE LET mask == Shl8(1, width) - 1
             shifted_value == Shl8(BitAnd(value, mask), 8 - be.offset - width)
         IN  [r |-> Ok(Unit),
              be |-> [data |-> BitOr(be.data, shifted_value),
                      offset |-> be.offset + width]]

BitDecoder_new(data) == [data |-> data, offset |-> 0]

\* BitDecoder::read: the result and the cursor after the call.
BitDecoder_read(bd, width) ==
    IF width = 0 \/ width > 8 THEN [r |-> Err(BitsWidth(width)), bd |-> bd]
    ELSE IF bd.offset + width > 8
    THEN [r |-> Err(BitsRead(bd.offset, width)), bd |-> bd]
    ELSE IF ShlOverflows(width) /\ build = "debug" THEN [r |-> Panic, bd |-> bd]
    ELSE LET mask == Shl8(Shl8(1, width) - 1, 8 - bd.offset - width)
             result == Shr8(BitAnd(bd.data, mask), 8 - bd.offset - width)
         IN  [r |-> Ok(result),
              bd |-> [data |-> bd.data, offset |-> bd.offset + width]]

(***************************************************************************)
(* Byte Cursor: Encoder.                                                   *)
(***************************************************************************)
Min(a, b) == IF a < b THEN a ELSE b
Zeros(n) == [i \in 1..n |-> 0]

Encoder_new(buf) == [offset |-> 0, buf |-> buf, panicked |-> FALSE]

\* Vec::resize(new_len, 0): truncates, or extends with zeros, to new_len.
Vec_resize(buf, new_len) ==
    IF new_len <= Len(buf) THEN SubSeq(buf, 1, new_len)
    ELSE buf \o Zeros(new_len - Len(buf))

Encoder_set_offset(e, pos) ==
    IF e.panicked THEN e
    ELSE [e EXCEPT !.buf = IF pos > Len(e.buf)
                           THEN Vec_resize(e.buf, pos - Len(e.buf))
                           ELSE e.buf,
                   !.offset = pos]

write_u8(e, b) ==
    IF e.panicked THEN e
    ELSE [e EXCEPT !.buf = IF e.offset < Len(e.buf)
                           THEN [e.buf EXCEPT ![e.offset + 1] = b]
                           ELSE Append(e.buf, b),
                   !.offset = e.offset + 1]

\* Fault variant of Encoder::write_slice: the bytes are always appended,
\* never copied over the positions the buffer already has.
write_slice_append(e, b) ==
    IF e.panicked THEN e
    ELSE [e EXCEPT !.buf = e.buf \o b, !.offset = e.offset + Len(b)]

\* cp_hi - cp_lo underflows when the offset is past the end of the buffer:
\* a panic with overflow checks, and without them a slice whose start is
\* past its end, which panics too.
write_slice(e, b) ==
    IF e.panicked THEN e
    ELSE IF Len(b) = 1 THEN write_u8(e, b[1])
    ELSE LET cp_lo == e.offset
             cp_hi == Min(e.offset + Len(b), Len(e.buf))
             cp_sz == cp_hi - cp_lo
         IN  IF cp_hi < cp_lo THEN [e EXCEPT !.panicked = TRUE]
             ELSE LET copied == IF cp_sz > 0
                                THEN [i \in 1..Len(e.buf) |->
                                        IF i > cp_lo /\ i <= cp_hi
                                        THEN b[i - cp_lo] ELSE e.buf[i]]
                                ELSE e.buf
                      extended == IF cp_sz < Len(b)
                                  THEN copied \o SubSeq(b, cp_sz + 1, Len(b))
                                  ELSE copied
                  IN  [e EXCEPT !.buf = extended, !.offset = e.offset + Len(b)]

write_str(e, s) == write_slice(e, s)

\* A u32 is held as its two 16-bit halves, hi * 65536 + lo, since the
\* model checker's integers are 32-bit signed.
U32(hi, lo) == [hi |-> hi, lo |-> lo]

\* Fault variant of to_be_bytes: the bytes of a u16 in little-endian order.
U16Bytes_le(v) == <<v % 256, v \div 256>>

\* to_be_bytes of a u16 and of a u32.
U16Bytes(v) == <<v \div 256, v % 256>>
U32Bytes(v) == <<v.hi \div 256, v.hi % 256, v.lo \div 256, v.lo % 256>>

\* Fault variant of Encoder::write_u16: to_le_bytes in place of to_be_bytes.
write_u16_le(e, v) == write_slice(e, <<v % 256, v \div 256>>)

write_u16(e, v) == write_slice(e, U16Bytes(v))
write_u32(e, v) == write_slice(e, U32Bytes(v))

\* Encoder::write_bits with a closure that writes `fields` (<<value, width>>
\* pairs) in order, each with `?`.
RECURSIVE BitEncoder_writes(_, _, _)
BitEncoder_writes(be, fields, i) ==
    IF i > Len(fields) THEN [r |-> Ok(Unit), be |-> be]
    ELSE LET out == BitEncoder_write(be, fields[i][1], fields[i][2])
         IN  IF out.r.tag = "Ok" THEN BitEncoder_writes(out.be, fields, i + 1)
             ELSE out

write_bits(e, fields) ==
    LET out == BitEncoder_writes(BitEncoder_new(0), fields, 1)
    IN  IF out.r.tag = "Ok" THEN [r |-> Ok(Unit), enc |-> write_u8(e, out.be.data)]
        ELSE IF out.r.tag = "Panic" THEN [r |-> Panic, enc |-> [e EXCEPT !.panicked = TRUE]]
        ELSE [r |-> out.r, enc |-> e]

(***************************************************************************)
(* Byte Cursor: Decoder.  labels maps a byte offset to the label read      *)
(* there; None / Some are Rust's Option.                                   *)
(***************************************************************************)
None == [some |-> FALSE]
Some(x) == [some |-> TRUE, x |-> x]

Decoder_new(buf) == [buf |-> buf, offset |-> 0, labels |-> <<>>]

Decoder_set_offset(d, offset) == [d EXCEPT !.offset = offset]

read_slice(d, len) ==
    IF d.offset + len > Len(d.buf)
    THEN [r |-> Err(ReadErr(d.offset, len, Len(d.buf))), dec |-> d]
    ELSE [r |-> Ok(SubSeq(d.buf, d.offset + 1, d.offset + len)),
          dec |-> [d EXCEPT !.offset = d.offset + len]]

read_u8(d) ==
    LET b == read_slice(d, 1)
    IN  IF b.r.tag = "Ok" THEN [r |-> Ok(b.r.v[1]), dec |-> b.dec] ELSE b

read_u16(d) ==
    LET b == read_slice(d, 2)
    IN  IF b.r.tag = "Ok" THEN [r |-> Ok(b.r.v[1] * 256 + b.r.v[2]), dec |-> b.dec]
        ELSE b

read_u32(d) ==
    LET b == read_slice(d, 4)
    IN  IF b.r.tag = "Ok"
        THEN [r |-> Ok(U32(b.r.v[1] * 256 + b.r.v[2], b.r.v[3] * 256 + b.r.v[4])),
              dec |-> b.dec]
        ELSE b

\* std::str::from_utf8: whether the bytes from index i on are well-formed UTF-8.
IsCont(s, i) == i <= Len(s) /\ s[i] \in 128..191
RECURSIVE Utf8From(_, _)
Utf8From(s, i) ==
    IF i > Len(s) THEN TRUE
    ELSE LET b == s[i]
         IN  IF b < 128 THEN Utf8From(s, i + 1)
             ELSE IF b \in 194..223 THEN IsCont(s, i + 1) /\ Utf8From(s, i + 2)
             ELSE IF b \in 224..239
             THEN /\ IsCont(s, i + 1) /\ IsCont(s, i + 2)
                  /\ (b = 224 => s[i + 1] >= 160)
                  /\ (b = 237 => s[i + 1] <= 159)
                  /\ Utf8From(s, i + 3)
             ELSE IF b \in 240..244
             THEN /\ IsCont(s, i + 1) /\ IsCont(s, i + 2) /\ IsCont(s, i + 3)
                  /\ (b = 240 => s[i + 1] >= 144)
                  /\ (b = 244 => s[i + 1] <= 143)
                  /\ Utf8From(s, i + 4)
             ELSE FALSE

from_utf8(bytes) == IF Utf8From(bytes, 1) THEN Ok(bytes) ELSE Err(DecodeUtf8)

\* Fault variant of HashMap::get: a key without an entry falls back to the
\* entry of the greatest smaller key.
labels_get_lower(labels, k) ==
    IF k \in DOMAIN labels THEN [some |-> TRUE, x |-> labels[k]]
    ELSE IF \E o \in DOMAIN labels : o < k
    THEN [some |-> TRUE,
          x |-> labels[CHOOSE o \in DOMAIN labels :
                          o < k /\ \A q \in DOMAIN labels : q < k => q <= o]]
    ELSE [some |-> FALSE]

\* HashMap::get and HashMap::insert on the label table.
labels_get(labels, k) == IF k \in DOMAIN labels THEN Some(labels[k]) ELSE None
labels_insert(labels, k, v) ==
    [o \in DOMAIN labels \cup {k} |-> IF o = k THEN v ELSE labels[o]]

read_label(d) ==
    LET label_offset == d.offset
        len == read_u8(d)
    IN  IF len.r.tag # "Ok" THEN len
        ELSE IF len.r.v = 0 THEN [r |-> Ok(None), dec |-> len.dec]
        ELSE IF BitAnd(len.r.v, 192) = 192
        THEN LET lo == read_u8(len.dec)
             IN  IF lo.r.tag # "Ok" THEN lo
                 ELSE LET offset == BitAnd(len.r.v, 63) * 256 + lo.r.v
                      IN  [r |-> Ok(labels_get(lo.dec.labels, offset)),
                           dec |-> lo.dec]
        ELSE LET bytes == read_slice(len.dec, len.r.v)
             IN  IF bytes.r.tag # "Ok" THEN bytes
                 ELSE LET label == from_utf8(bytes.r.v)
                      IN  IF label.tag # "Ok" THEN [r |-> label, dec |-> bytes.dec]
                          ELSE [r |-> Ok(Some(label.v)),
                                dec |-> [bytes.dec EXCEPT !.labels =
                                    labels_insert(bytes.dec.labels, label_offset,
                                                  label.v)]]

\* Decoder::read_bits with a closure that reads fields of the given widths
\* in order, each with `?`; the result is the sequence of the values read.
RECURSIVE BitDecoder_reads(_, _, _, _)
BitDecoder_reads(bd, widths, i, acc) ==
    IF i > Len(widths) THEN Ok(acc)
    ELSE LET out == BitDecoder_read(bd, widths[i])
         IN  IF out.r.tag = "Ok"
             THEN BitDecoder_reads(out.bd, widths, i + 1, Append(acc, out.r.v))
             ELSE out.r

read_bits(d, widths) ==
    LET b == read_slice(d, 1)
    IN  IF b.r.tag # "Ok" THEN b
        ELSE [r |-> BitDecoder_reads(BitDecoder_new(b.r.v[1]), widths, 1, <<>>),
              dec |-> b.dec]

\* Decoder::read_name: labels are read until the zero terminator and joined
\* with '.'; a compression pointer replaces the rest of the name, so reading
\* stops after it.
Dot == 46
RECURSIVE Join(_, _)
Join(labels, i) ==
    IF i > Len(labels) THEN <<>>
    ELSE IF i = Len(labels) THEN labels[i]
    ELSE labels[i] \o <<Dot>> \o Join(labels, i + 1)

RECURSIVE read_name_from(_, _)
read_name_from(d, acc) ==
    LET pointer == d.offset < Len(d.buf) /\ BitAnd(d.buf[d.offset + 1], 192) = 192
        out == read_label(d)
    IN  IF out.r.tag # "Ok" THEN out
        ELSE IF ~out.r.v.some THEN [r |-> Ok(Join(acc, 1)), dec |-> out.dec]
        ELSE IF pointer
        THEN [r |-> Ok(Join(Append(acc, out.r.v.x), 1)), dec |-> out.dec]
        ELSE read_name_from(out.dec, Append(acc, out.r.v.x))

read_name(d) == read_name_from(d, <<>>)

(***************************************************************************)
(* Name: a dotted string.                                                  *)
(***************************************************************************)
\* str::split('.'): the segments between the dots, empty ones included.
Split(s) ==
    LET cuts == {0, Len(s) + 1} \cup {i \in 1..Len(s) : s[i] = Dot}
        Kth(k) == CHOOSE c \in cuts : Cardinality({x \in cuts : x < c}) = k - 1
    IN  [j \in 1..(Cardinality(cuts) - 1) |-> SubSeq(s, Kth(j) + 1, Kth(j + 1) - 1)]

RECURSIVE Name_encode_labels(_, _, _)
Name_encode_labels(labels, i, e) ==
    IF i > Len(labels) THEN e
    ELSE Name_encode_labels(labels, i + 1,
             write_str(write_u8(e, Len(labels[i]) % 256), labels[i]))

\* Fault variant of Name::encode: the terminating zero byte is missing.
Name_encode_unterminated(name, e) == Name_encode_labels(Split(name), 1, e)

Name_encode(name, e) == write_u8(Name_encode_labels(Split(name), 1, e), 0)

Name_decode(d) == read_name(d)

(***************************************************************************)
(* Type and Class: the named variants of the enum declarations, and the    *)
(* escape variant UNKNOWN(code).                                           *)
(***************************************************************************)
Variant(name) == [variant |-> name]
UNKNOWN(code) == [variant |-> "UNKNOWN", code |-> code]

\* The discriminants of `enum Type`: A = 1 and the 15 variants after it,
\* AXFR = 252 and the 3 variants after it.
TypeVariants ==
    <<"A", "NS", "MD", "MF", "CNAME", "SOA", "MB", "MG", "MR", "NULL", "WKS",
      "PTR", "HINFO", "MINFO", "MX", "TXT">>
QTypeVariants == <<"AXFR", "MAILB", "MAILA", "ANY">>
\* The discriminants of `enum Class`: IN = 1 and the 3 variants after it.
ClassVariants == <<"IN", "CS", "CH", "HS">>

Type_code(t) ==
    CASE t.variant = "A" -> 1
      [] t.variant = "NS" -> 2
      [] t.variant = "MD" -> 3
      [] t.variant = "MF" -> 4
      [] t.variant = "CNAME" -> 5
      [] t.variant = "SOA" -> 6
      [] t.variant = "MB" -> 7
      [] t.variant = "MG" -> 8
      [] t.variant = "MR" -> 9
      [] t.variant = "NULL" -> 10
      [] t.variant = "WKS" -> 11
      [] t.variant = "PTR" -> 12
      [] t.variant = "HINFO" -> 13
      [] t.variant = "MINFO" -> 14
      [] t.variant = "MX" -> 15
      [] t.variant = "TXT" -> 16
      [] t.variant = "AXFR" -> 252
      [] t.variant = "MAILB" -> 253
      [] t.variant = "MAILA" -> 254
      [] t.variant = "ANY" -> 255
      [] t.variant = "UNKNOWN" -> t.code

Type_encode(t, e) == write_u16(e, Type_code(t))

Type_of(value) ==
    CASE value = 1 -> Variant("A")
      [] value = 2 -> Variant("NS")
      [] value = 3 -> Variant("MD")
      [] value = 4 -> Variant("MF")
      [] value = 5 -> Variant("CNAME")
      [] value = 6 -> Variant("SOA")
      [] value = 7 -> Variant("MB")
      [] value = 8 -> Variant("MG")
      [] value = 9 -> Variant("MR")
      [] value = 10 -> Variant("NULL")
      [] value = 11 -> Variant("WKS")
      [] value = 12 -> Variant("PTR")
      [] value = 13 -> Variant("HINFO")
      [] value = 14 -> Variant("MINFO")
      [] value = 15 -> Variant("MX")
      [] value = 16 -> Variant("TXT")
      [] value = 252 -> Variant("AXFR")
      [] value = 253 -> Variant("MAILB")
      [] value = 254 -> Variant("MAILA")
      [] value = 255 -> Variant("ANY")
      [] OTHER -> UNKNOWN(value)

Type_decode(d) ==
    LET value == read_u16(d)
    IN  IF value.r.tag # "Ok" THEN value
        ELSE [r |-> Ok(Type_of(value.r.v)), dec |-> value.dec]

Class_code(c) ==
    CASE c.variant = "IN" -> 1
      [] c.variant = "CS" -> 2
      [] c.variant = "CH" -> 3
      [] c.variant = "HS" -> 4
      [] c.variant = "UNKNOWN" -> c.code

Class_encode(c, e) == write_u16(e, Class_code(c))

Class_of(value) ==
    CASE value = 1 -> Variant("IN")
      [] value = 2 -> Variant("CS")
      [] value = 3 -> Variant("CH")
      [] value = 4 -> Variant("HS")
      [] OTHER -> UNKNOWN(value)

Class_decode(d) ==
    LET value == read_u16(d)
    IN  IF value.r.tag # "Ok" THEN value
        ELSE [r |-> Ok(Class_of(value.r.v)), dec |-> value.dec]

(***************************************************************************)
(* Question and Record.                                                    *)
(***************************************************************************)
Question_encode(q, e) ==
    Class_encode(q.class, Type_encode(q.qtype, Name_encode(q.name, e)))

\* `?` chains: the reads of a decode run in order, each where the previous
\* one left the Decoder; the first failure is returned, otherwise the values
\* read are collected in order.
Collect(c, out) ==
    IF out.r.tag # "Ok" THEN out
    ELSE [r |-> Ok(Append(c.r.v, out.r.v)), dec |-> out.dec]
read_field(d, kind) ==
    CASE kind[1] = "name"  -> Name_decode(d)
      [] kind[1] = "type"  -> Type_decode(d)
      [] kind[1] = "class" -> Class_decode(d)
      [] kind[1] = "u16"   -> read_u16(d)
      [] kind[1] = "u32"   -> read_u32(d)
      [] kind[1] = "bits"  -> read_bits(d, kind[2])

RECURSIVE read_fields(_, _, _, _)
\* The `?` after a read: a failure is the result, otherwise the rest is read.
read_fields_next(out, kinds, i, acc) ==
    IF out.r.tag # "Ok" THEN out
    ELSE read_fields(out.dec, kinds, i + 1, Append(acc, out.r.v))
read_fields(d, kinds, i, acc) ==
    IF i > Len(kinds) THEN [r |-> Ok(acc), dec |-> d]
    ELSE read_fields_next(read_field(d, kinds[i]), kinds, i, acc)

Question_fields(d) ==
    read_fields(d, << <<"name">>, <<"type">>, <<"class">> >>, 1, <<>>)
Question_build(c) ==
    IF c.r.tag # "Ok" THEN c
    ELSE [r |-> Ok([name |-> c.r.v[1], qtype |-> c.r.v[2], class |-> c.r.v[3]]),
          dec |-> c.dec]
Question_decode(d) == Question_build(Question_fields(d))

\* Fault variant of Record::encode: RDLENGTH is written, the rdata is not.
Record_encode_no_rdata(rec, e) ==
    write_u16(write_u32(Class_encode(rec.class,
        Type_encode(rec.rtype, Name_encode(rec.name, e))), rec.ttl),
        Len(rec.rdata) % 65536)

Record_encode(rec, e) ==
    LET head == write_u32(Class_encode(rec.class,
                    Type_encode(rec.rtype, Name_encode(rec.name, e))), rec.ttl)
    IN  write_slice(write_u16(head, Len(rec.rdata) % 65536), rec.rdata)

\* name, rtype, class, ttl and rdlength, then rdlength bytes of rdata.
Record_head(d) ==
    read_fields(d, << <<"name">>, <<"type">>, <<"class">>, <<"u32">>, <<"u16">> >>,
                1, <<>>)
Record_rdata(c) ==
    IF c.r.tag # "Ok" THEN c ELSE Collect(c, read_slice(c.dec, c.r.v[5]))
Record_build(c) ==
    IF c.r.tag # "Ok" THEN c
    ELSE [r |-> Ok([name |-> c.r.v[1], rtype |-> c.r.v[2], class |-> c.r.v[3],
                    ttl |-> c.r.v[4], rdata |-> c.r.v[6]]),
          dec |-> c.dec]
Record_decode(d) == Record_build(Record_rdata(Record_head(d)))

(***************************************************************************)
(* Message.                                                                *)
(***************************************************************************)
RECURSIVE Questions_encode(_, _, _)
Questions_encode(qs, i, e) ==
    IF i > Len(qs) THEN e ELSE Questions_encode(qs, i + 1, Question_encode(qs[i], e))

RECURSIVE Records_encode(_, _, _)
Records_encode(rs, i, e) ==
    IF i > Len(rs) THEN e ELSE Records_encode(rs, i + 1, Record_encode(rs[i], e))

Message_encode(m, e) ==
    LET b1 == write_bits(write_u16(e, m.id),
                  << <<m.qr, 1>>, <<m.opcode, 4>>, <<m.aa, 1>>, <<m.tc, 1>>,
                     <<m.rd, 1>> >>)
    IN  IF b1.r.tag # "Ok" THEN b1
        ELSE LET b2 == write_bits(b1.enc,
                           << <<m.ra, 1>>, <<m.z, 3>>, <<m.rcode, 4>> >>)
    IN  IF b2.r.tag # "Ok" THEN b2
        ELSE LET counts == write_u16(write_u16(write_u16(write_u16(b2.enc,
                                Len(m.questions) % 65536),
                                Len(m.answers) % 65536), m.nscount), m.arcount)
             IN  [r |-> Ok(Unit),
                  enc |-> Records_encode(m.answers, 1,
                              Questions_encode(m.questions, 1, counts))]

\* (0..count).map(|_| Question::decode(dec)).collect::<Result<Vec<_>, _>>():
\* stops at the first error.
RECURSIVE Questions_decode(_, _, _)
Questions_next(q, count, acc) ==
    IF q.r.tag # "Ok" THEN q
    ELSE Questions_decode(q.dec, count - 1, Append(acc, q.r.v))
Questions_decode(d, count, acc) ==
    IF count = 0 THEN [r |-> Ok(acc), dec |-> d]
    ELSE Questions_next(Question_decode(d), count, acc)

RECURSIVE Records_decode(_, _, _)
Records_next(rec, count, acc) ==
    IF rec.r.tag # "Ok" THEN rec
    ELSE Records_decode(rec.dec, count - 1, Append(acc, rec.r.v))
Records_decode(d, count, acc) ==
    IF count = 0 THEN [r |-> Ok(acc), dec |-> d]
    ELSE Records_next(Record_decode(d), count, acc)

\* id, the two flag bytes, qdcount, ancount, nscount and arcount, then
\* qdcount questions and ancount answers.
Message_header(d) ==
    read_fields(d, << <<"u16">>, <<"bits", <<1, 4, 1, 1, 1>> >>,
                      <<"bits", <<1, 3, 4>> >>,
                      <<"u16">>, <<"u16">>, <<"u16">>, <<"u16">> >>, 1, <<>>)
\* Fault variant of Message::decode: the questions are counted by ancount.
Message_questions_by_ancount(c) ==
    IF c.r.tag # "Ok" THEN c ELSE Collect(c, Questions_decode(c.dec, c.r.v[5], <<>>))

Message_questions(c) ==
    IF c.r.tag # "Ok" THEN c ELSE Collect(c, Questions_decode(c.dec, c.r.v[4], <<>>))
Message_answers(c) ==
    IF c.r.tag # "Ok" THEN c ELSE Collect(c, Records_decode(c.dec, c.r.v[5], <<>>))
Message_build(c) ==
    IF c.r.tag # "Ok" THEN c
    ELSE [r |-> Ok([id |-> c.r.v[1],
                    qr |-> c.r.v[2][1], opcode |-> c.r.v[2][2], aa |-> c.r.v[2][3],
                    tc |-> c.r.v[2][4], rd |-> c.r.v[2][5],
                    ra |-> c.r.v[3][1], z |-> c.r.v[3][2], rcode |-> c.r.v[3][3],
                    nscount |-> c.r.v[6], arcount |-> c.r.v[7],
                    questions |-> c.r.v[8], answers |-> c.r.v[9]]),
          dec |-> c.dec]
Message_decode(d) ==
    Message_build(Message_answers(Message_questions(Message_header(d))))

(***************************************************************************)
(* The Bit Cursor driven by arbitrary calls.                               *)
(***************************************************************************)
NoCall == [op |-> "none"]
NoCodec ==
    /\ val = <<>>
    /\ enc = Encoder_new(<<>>)
    /\ dec = Decoder_new(<<>>)
    /\ res = Ok(Unit)

InitBitCursor ==
    /\ build \in Builds
    /\ pc = "enc"
    /\ benc = BitEncoder_new(0)
    /\ bdec = BitDecoder_new(0)
    /\ script = <<>>
    /\ readback = <<>>
    /\ bres = NoCall
    /\ NoCodec

\* A new BitEncoder over a byte; the BitDecoder is dropped.
BitEncoderNew(d) ==
    /\ pc \in {"enc", "dec"}
    /\ benc' = BitEncoder_new(d)
    /\ bdec' = BitDecoder_new(0)
    /\ bres' = NoCall
    /\ pc' = "enc"
    /\ UNCHANGED <<build, script, readback, codecVars>>

BitWrite(v, w) ==
    /\ pc = "enc"
    /\ LET out == BitEncoder_write(benc, v, w)
       IN  /\ benc' = out.be
           /\ bres' = [op |-> "write", value |-> v, width |-> w,
                       before |-> benc, r |-> out.r]
           /\ pc' = IF out.r.tag = "Panic" THEN "panicked" ELSE pc
    /\ UNCHANGED <<build, bdec, script, readback, codecVars>>

\* A new BitDecoder over a byte (the one just written, or any other); the
\* BitEncoder, which borrowed its byte mutably, is dropped.
BitDecoderNew(d) ==
    /\ pc \in {"enc", "dec"}
    /\ bdec' = BitDecoder_new(d)
    /\ benc' = BitEncoder_new(0)
    /\ bres' = NoCall
    /\ pc' = "dec"
    /\ UNCHANGED <<build, script, readback, codecVars>>

BitRead(w) ==
    /\ pc = "dec"
    /\ LET out == BitDecoder_read(bdec, w)
       IN  /\ bdec' = out.bd
           /\ bres' = [op |-> "read", value |-> 0, width |-> w,
                       before |-> bdec, r |-> out.r]
           /\ pc' = IF out.r.tag = "Panic" THEN "panicked" ELSE pc
    /\ UNCHANGED <<build, benc, script, readback, codecVars>>

NextBitCursor ==
    \/ \E d \in BitValues \cup {0} : BitEncoderNew(d)
    \/ \E v \in BitValues, w \in 0..MaxWidth : BitWrite(v, w)
    \/ \E d \in BitValues \cup {benc.data} : BitDecoderNew(d)
    \/ \E w \in 0..MaxWidth : BitRead(w)

SpecBitCursor == InitBitCursor /\ [][NextBitCursor]_vars

(***************************************************************************)
(* The Bit Cursor driven by a caller that writes a script of fields whose  *)
(* widths sum to one byte into a zero byte and reads them back with the    *)
(* same widths in the same order (encoder.rs test_bit_encoder_decoder).    *)
(***************************************************************************)
RECURSIVE Scripts(_)
Scripts(n) ==
    IF n = 0 THEN {<<>>}
    ELSE UNION {{<<[value |-> v, width |-> w]>> \o t : t \in Scripts(n - w)} :
                    v \in BitValues, w \in 1..n}

InitBitRoundTrip ==
    /\ build \in Builds
    /\ pc = "write"
    /\ benc = BitEncoder_new(0)
    /\ bdec = BitDecoder_new(0)
    /\ script \in Scripts(8)
    /\ readback = <<>>
    /\ bres = [op |-> "none", n |-> 0]
    /\ NoCodec

WriteField ==
    /\ pc = "write"
    /\ bres.n < Len(script)
    /\ LET f == script[bres.n + 1]
           out == BitEncoder_write(benc, f.value, f.width)
       IN  /\ benc' = out.be
           /\ bres' = [op |-> "write", n |-> bres.n + 1, r |-> out.r]
           /\ pc' = IF out.r.tag = "Ok" THEN pc ELSE "failed"
    /\ UNCHANGED <<build, bdec, script, readback, codecVars>>

StartRead ==
    /\ pc = "write"
    /\ bres.n = Len(script)
    /\ bdec' = BitDecoder_new(benc.data)
    /\ bres' = [op |-> "none", n |-> 0]
    /\ pc' = "read"
    /\ UNCHANGED <<build, benc, script, readback, codecVars>>

ReadField ==
    /\ pc = "read"
    /\ bres.n < Len(script)
    /\ LET out == BitDecoder_read(bdec, script[bres.n + 1].width)
       IN  /\ bdec' = out.bd
           /\ bres' = [op |-> "read", n |-> bres.n + 1, r |-> out.r]
           /\ readback' = IF out.r.tag = "Ok" THEN Append(readback, out.r.v)
                          ELSE readback
           /\ pc' = IF out.r.tag = "Ok" THEN pc ELSE "failed"
    /\ UNCHANGED <<build, benc, script, codecVars>>

NextBitRoundTrip == WriteField \/ StartRead \/ ReadField

SpecBitRoundTrip == InitBitRoundTrip /\ [][NextBitRoundTrip]_vars

(***************************************************************************)
(* Names on the wire.  A peer writes up to MaxItems items to one buffer,   *)
(* each a name written by Name::encode or a two-byte compression pointer,  *)
(* and the buffer is then decoded name by name with one Decoder.           *)
(* val lists the items written, res the result of each Name::decode.       *)
(***************************************************************************)
Repeat(b, n) == [i \in 1..n |-> b]
\* "codecrafters.io", the name of the tests
CodecraftersIo ==
    <<99, 111, 100, 101, 99, 114, 97, 102, 116, 101, 114, 115, Dot, 105, 111>>
ShortNames == UNION {[1..n -> {97, Dot}] : n \in 0..MaxNameLen}
Names ==
    ShortNames \cup
    { <<97, Dot, 98>>, <<98, 97>>, <<97, 98, Dot, 98, Dot, 97>>,
      Repeat(97, 63), Repeat(98, 63) \o <<Dot, 105, 111>>, CodecraftersIo }

InitName ==
    /\ build \in Builds
    /\ pc = "encode"
    /\ benc = BitEncoder_new(0)
    /\ bdec = BitDecoder_new(0)
    /\ script = <<>>
    /\ readback = <<>>
    /\ bres = NoCall
    /\ val = <<>>
    /\ enc = Encoder_new(<<>>)
    /\ dec = Decoder_new(<<>>)
    /\ res = <<>>

WriteName(n) ==
    /\ pc = "encode"
    /\ Len(val) < MaxItems
    /\ enc' = Name_encode(n, enc)
    /\ val' = Append(val, [kind |-> "name", name |-> n, k |-> 0,
                           at |-> enc.offset, end |-> enc'.offset])
    /\ UNCHANGED <<build, pc, bitVars, dec, res>>

\* The pointer to offset k: 0xC0 | (k >> 8), then k & 0xFF.
WritePointer(k) ==
    /\ pc = "encode"
    /\ Len(val) < MaxItems
    /\ enc' = write_u8(write_u8(enc, 192 + (k \div 256)), k % 256)
    /\ val' = Append(val, [kind |-> "ptr", name |-> <<>>, k |-> k,
                           at |-> enc.offset, end |-> enc'.offset])
    /\ UNCHANGED <<build, pc, bitVars, dec, res>>

StartDecode ==
    /\ pc = "encode"
    /\ val # <<>>
    /\ dec' = Decoder_new(enc.buf)
    /\ pc' = "decode"
    /\ UNCHANGED <<build, bitVars, val, enc, res>>

DecodeName ==
    /\ pc = "decode"
    /\ Len(res) < Len(val)
    /\ \A i \in 1..Len(res) : res[i].r.tag = "Ok"
    /\ LET out == Name_decode(dec)
       IN  /\ dec' = out.dec
           /\ res' = Append(res, [r |-> out.r, end |-> out.dec.offset])
    /\ UNCHANGED <<build, pc, bitVars, val, enc>>

NextName ==
    \/ \E n \in Names : WriteName(n)
    \/ \E k \in 0..(Len(enc.buf) + 1) : WritePointer(k)
    \/ StartDecode
    \/ DecodeName

SpecName == InitName /\ [][NextName]_vars

\* A name of one or more labels, each 1 to 63 bytes long.
ValidName(n) == \A j \in DOMAIN Split(n) : Len(Split(n)[j]) \in 1..63
\* The items before item i leave the decoder at the start of item i.
Aligned(i) == \A j \in 1..(i - 1) : val[j].kind = "name" => ValidName(val[j].name)

(***************************************************************************)
(* C2: a name of one or more labels of 1 to 63 bytes, written by           *)
(* Name::encode, is decoded by Name::decode to the same string, and the    *)
(* Decoder offset is left at the end of the encoded name.                  *)
(***************************************************************************)
C2_NameRoundTrip ==
    pc = "decode" =>
        \A i \in 1..Len(res) :
            (val[i].kind = "name" /\ ValidName(val[i].name) /\ Aligned(i)) =>
                /\ res[i].r = Ok(val[i].name)
                /\ res[i].end = val[i].end

C2_Witness ==
    /\ pc = "decode"
    /\ Len(res) = 2
    /\ val[1].name = <<97, Dot, 98>>
    /\ val[2].kind = "name"
    /\ val[2].name = Repeat(98, 63) \o <<Dot, 105, 111>>
    /\ res[2].r = Ok(val[2].name)
    /\ res[2].end = Len(dec.buf)

(***************************************************************************)
(* C4: when a name N of one or more labels was decoded at offset k earlier *)
(* in the buffer, a later name written as the pointer to k decodes to the  *)
(* full text of N.                                                         *)
(***************************************************************************)
C4_PointerYieldsFullName ==
    pc = "decode" =>
        \A i \in 1..Len(res) : \A j \in 1..(i - 1) :
            ( /\ val[i].kind = "ptr"
              /\ val[j].kind = "name"
              /\ val[j].at = val[i].k
              /\ ValidName(val[j].name)
              /\ Aligned(i) )
            => res[i].r = Ok(val[j].name)

(***************************************************************************)
(* C7: Name::encode writes, for each non-empty label of the name split on  *)
(* '.', a length byte and the label's bytes, and then one zero byte; empty *)
(* segments produce no bytes.                                              *)
(***************************************************************************)
RECURSIVE C7_Labels(_, _)
C7_Labels(labels, i) ==
    IF i > Len(labels) THEN <<>>
    ELSE (IF labels[i] = <<>> THEN <<>> ELSE <<Len(labels[i])>> \o labels[i])
         \o C7_Labels(labels, i + 1)

C7_NameEncodeSkipsEmpty ==
    \A i \in 1..Len(val) :
        val[i].kind = "name" =>
            SubSeq(enc.buf, val[i].at + 1, val[i].end)
                = C7_Labels(Split(val[i].name), 1) \o <<0>>

(***************************************************************************)
(* Type and Class codes.  The wire holds one 16-bit code; it is decoded as *)
(* a Type or as a Class, and the decoded value is encoded again.           *)
(***************************************************************************)
Codes == 0..65535

InitType ==
    /\ build \in Builds
    /\ pc = "wire"
    /\ benc = BitEncoder_new(0)
    /\ bdec = BitDecoder_new(0)
    /\ script = <<>>
    /\ readback = <<>>
    /\ bres = NoCall
    /\ val \in Codes
    /\ enc = Encoder_new(<<>>)
    /\ dec = Decoder_new(U16Bytes(val))
    /\ res = Ok(Unit)

TypeDecode ==
    /\ pc = "wire"
    /\ LET out == Type_decode(dec)
       IN  /\ res' = out.r
           /\ dec' = out.dec
    /\ pc' = "Type::decode"
    /\ UNCHANGED <<build, bitVars, val, enc>>

TypeEncode ==
    /\ pc = "Type::decode"
    /\ res.tag = "Ok"
    /\ enc' = Type_encode(res.v, enc)
    /\ pc' = "Type::encode"
    /\ UNCHANGED <<build, bitVars, val, dec, res>>

ClassDecode ==
    /\ pc = "wire"
    /\ LET out == Class_decode(dec)
       IN  /\ res' = out.r
           /\ dec' = out.dec
    /\ pc' = "Class::decode"
    /\ UNCHANGED <<build, bitVars, val, enc>>

ClassEncode ==
    /\ pc = "Class::decode"
    /\ res.tag = "Ok"
    /\ enc' = Class_encode(res.v, enc)
    /\ pc' = "Class::encode"
    /\ UNCHANGED <<build, bitVars, val, dec, res>>

NextType == TypeDecode \/ TypeEncode \/ ClassDecode \/ ClassEncode

SpecType == InitType /\ [][NextType]_vars

(***************************************************************************)
(* C8: Type::decode and Class::decode succeed for every 16-bit code: the   *)
(* code of a named variant yields that variant, any other code yields      *)
(* UNKNOWN carrying the code, and encoding the decoded value writes the    *)
(* same 16-bit code.                                                       *)
(***************************************************************************)
C8_Named(variants, first, code) ==
    IF code \in first..(first + Len(variants) - 1)
    THEN Variant(variants[code - first + 1])
    ELSE UNKNOWN(code)

C8_Expected(code) ==
    IF pc \in {"Type::decode", "Type::encode"}
    THEN (IF code \in 252..255 THEN C8_Named(QTypeVariants, 252, code)
          ELSE C8_Named(TypeVariants, 1, code))
    ELSE C8_Named(ClassVariants, 1, code)

C8_CodeRoundTrip ==
    pc # "wire" =>
        /\ res = Ok(C8_Expected(val))
        /\ dec.offset = 2
        /\ pc \in {"Type::encode", "Class::encode"} =>
               /\ enc.buf = <<val \div 256, val % 256>>
               /\ enc.offset = 2

C8_Witness ==
    /\ pc = "Type::encode"
    /\ val = 65280
    /\ res = Ok(UNKNOWN(65280))
    /\ enc.buf = <<255, 0>>

(***************************************************************************)
(* Records.  A Record is encoded into an empty buffer; the bytes, whole,   *)
(* cut short or followed by other bytes, are then decoded as a Record.     *)
(***************************************************************************)
\* rdata of the usual sizes under every header, and rdata around the
\* 16-bit limit of RDLENGTH under one.
Records ==
    [name : {<<97>>, <<97, Dot, 98>>, CodecraftersIo},
     rtype : {Variant("A"), UNKNOWN(300)},
     class : {Variant("IN")},
     ttl : {U32(0, 60), U32(65535, 65535)},
     rdata : {Repeat(8, n) : n \in {0, 1, 4}}]
    \cup
    [name : {CodecraftersIo},
     rtype : {Variant("A")},
     class : {Variant("IN")},
     ttl : {U32(0, 60)},
     rdata : {Repeat(8, n) : n \in {65535, 65536}}]

InitRecord ==
    /\ build \in Builds
    /\ pc = "start"
    /\ benc = BitEncoder_new(0)
    /\ bdec = BitDecoder_new(0)
    /\ script = <<>>
    /\ readback = <<>>
    /\ bres = NoCall
    /\ val \in Records
    /\ enc = Encoder_new(<<>>)
    /\ dec = Decoder_new(<<>>)
    /\ res = Ok(Unit)

RecordEncode ==
    /\ pc = "start"
    /\ enc' = Record_encode(val, enc)
    /\ pc' = "encoded"
    /\ UNCHANGED <<build, bitVars, val, dec, res>>

\* The datagram handed to the Decoder: the first n bytes written, then `more`.
RecordReceive(n, more) ==
    /\ pc = "encoded"
    /\ dec' = Decoder_new(SubSeq(enc.buf, 1, n) \o more)
    /\ pc' = "received"
    /\ UNCHANGED <<build, bitVars, val, enc, res>>

RecordDecode ==
    /\ pc = "received"
    /\ LET out == Record_decode(dec)
       IN  /\ dec' = out.dec
           /\ res' = out.r
    /\ pc' = "decoded"
    /\ UNCHANGED <<build, bitVars, val, enc>>

NextRecord ==
    \/ RecordEncode
    \/ \E n \in {Len(enc.buf) - 1, Len(enc.buf)}, more \in {<<>>, <<3, 8, 8>>} :
           RecordReceive(n, more)
    \/ RecordDecode

SpecRecord == InitRecord /\ [][NextRecord]_vars

\* The offset of the RDLENGTH field of a record written at offset 0: the
\* name takes Len(name) + 2 bytes, TYPE and CLASS 2 each and TTL 4.
RdlengthAt(rec) == Len(rec.name) + 2 + 2 + 2 + 4
U16At(buf, at) == buf[at + 1] * 256 + buf[at + 2]

(***************************************************************************)
(* C9 as claimed: for every Record the RDLENGTH field written equals       *)
(* rdata.len() and is followed by exactly that many rdata bytes.           *)
(***************************************************************************)
C9_RdlengthIsRdataLen ==
    pc # "start" =>
        /\ U16At(enc.buf, RdlengthAt(val)) = Len(val.rdata)
        /\ Len(enc.buf) = RdlengthAt(val) + 2 + U16At(enc.buf, RdlengthAt(val))

(***************************************************************************)
(* C9 amended: the RDLENGTH field written equals rdata.len() modulo 65536  *)
(* (rdata.len() itself when that is at most 65535) and is followed by all  *)
(* the rdata bytes; Record::decode reads exactly RDLENGTH bytes of rdata:  *)
(* it returns the RDLENGTH bytes after the field and leaves the offset     *)
(* behind them, or fails asking for RDLENGTH bytes there.                  *)
(***************************************************************************)
C9_RdlengthMod65536 ==
    LET at == RdlengthAt(val)
    IN  /\ pc # "start" =>
            /\ U16At(enc.buf, at) = Len(val.rdata) % 65536
            /\ Len(val.rdata) <= 65535 => U16At(enc.buf, at) = Len(val.rdata)
            /\ SubSeq(enc.buf, at + 3, Len(enc.buf)) = val.rdata
            /\ enc.offset = at + 2 + Len(val.rdata)
        /\ (pc = "decoded" /\ Len(dec.buf) >= at + 2) =>
            LET rdlength == U16At(dec.buf, at)
            IN  IF at + 2 + rdlength <= Len(dec.buf)
                THEN /\ res.tag = "Ok"
                     /\ res.v.rdata = SubSeq(dec.buf, at + 3, at + 2 + rdlength)
                     /\ dec.offset = at + 2 + rdlength
                ELSE res = Err(ReadErr(at + 2, rdlength, Len(dec.buf)))

C9_Witness ==
    /\ pc = "decoded"
    /\ Len(val.rdata) = 4
    /\ dec.buf = enc.buf \o <<3, 8, 8>>
    /\ res.tag = "Ok"
    /\ res.v.rdata = <<8, 8, 8, 8>>
    /\ U16At(dec.buf, RdlengthAt(val)) = 4

(***************************************************************************)
(* Messages.  A Message is encoded into an empty buffer; the first n bytes *)
(* of the result (all of them, or a strict prefix) are then decoded.       *)
(***************************************************************************)
SeqsUpTo(S, n) == UNION {[1..k -> S] : k \in 0..n}

Headers ==
    { [id |-> 1, qr |-> 0, opcode |-> 0, aa |-> 1, tc |-> 0, rd |-> 0,
       ra |-> 0, z |-> 0, rcode |-> 0, nscount |-> 0, arcount |-> 0],
      [id |-> 43981, qr |-> 1, opcode |-> 7, aa |-> 0, tc |-> 1, rd |-> 1,
       ra |-> 1, z |-> 5, rcode |-> 4, nscount |-> 513, arcount |-> 1027],
      [id |-> 65535, qr |-> 3, opcode |-> 31, aa |-> 2, tc |-> 3, rd |-> 255,
       ra |-> 2, z |-> 15, rcode |-> 255, nscount |-> 65535, arcount |-> 0] }

\* Question::default() and Record::default() carry the empty name.
MsgQuestions ==
    { [name |-> CodecraftersIo, qtype |-> Variant("A"), class |-> Variant("IN")],
      [name |-> <<97, Dot, 98>>, qtype |-> UNKNOWN(300), class |-> UNKNOWN(5)],
      [name |-> <<>>, qtype |-> Variant("A"), class |-> Variant("IN")] }
MsgRecords ==
    { [name |-> CodecraftersIo, rtype |-> Variant("A"), class |-> Variant("IN"),
       ttl |-> U32(0, 60), rdata |-> <<8, 8, 8, 8>>],
      [name |-> <<97>>, rtype |-> Variant("ANY"), class |-> Variant("HS"),
       ttl |-> U32(65535, 65534), rdata |-> <<>>],
      [name |-> <<>>, rtype |-> Variant("A"), class |-> Variant("IN"),
       ttl |-> U32(0, 0), rdata |-> <<>>] }

WithSections(h, qs, as) ==
    [id |-> h.id, qr |-> h.qr, opcode |-> h.opcode, aa |-> h.aa, tc |-> h.tc,
     rd |-> h.rd, ra |-> h.ra, z |-> h.z, rcode |-> h.rcode,
     nscount |-> h.nscount, arcount |-> h.arcount,
     questions |-> qs, answers |-> as]

Messages ==
    { WithSections(h, qs, as) :
        h \in Headers, qs \in SeqsUpTo(MsgQuestions, MaxQuestions),
        as \in SeqsUpTo(MsgRecords, MaxAnswers) }

InitMsg ==
    /\ build \in Builds
    /\ pc = "start"
    /\ benc = BitEncoder_new(0)
    /\ bdec = BitDecoder_new(0)
    /\ script = <<>>
    /\ readback = <<>>
    /\ bres = NoCall
    /\ val \in Messages
    /\ enc = Encoder_new(<<>>)
    /\ dec = Decoder_new(<<>>)
    /\ res = Ok(Unit)

MessageEncode ==
    /\ pc = "start"
    /\ LET out == Message_encode(val, enc)
       IN  /\ enc' = out.enc
           /\ res' = out.r
    /\ pc' = "encoded"
    /\ UNCHANGED <<build, bitVars, val, dec>>

MessageReceive(n) ==
    /\ pc = "encoded"
    /\ res.tag = "Ok"
    /\ dec' = Decoder_new(SubSeq(enc.buf, 1, n))
    /\ pc' = "received"
    /\ UNCHANGED <<build, bitVars, val, enc, res>>

MessageDecode ==
    /\ pc = "received"
    /\ LET out == Message_decode(dec)
       IN  /\ dec' = out.dec
           /\ res' = out.r
    /\ pc' = "decoded"
    /\ UNCHANGED <<build, bitVars, val, enc>>

NextMsg ==
    \/ MessageEncode
    \/ \E n \in 0..Len(enc.buf) : MessageReceive(n)
    \/ MessageDecode

SpecMsg == InitMsg /\ [][NextMsg]_vars

(***************************************************************************)
(* C1: for every Message whose flags fit their bit fields and whose        *)
(* sections have at most 65535 entries, decoding the bytes that            *)
(* Message::encode produced succeeds and returns an equal Message.         *)
(***************************************************************************)
FlagsFit(m) ==
    /\ m.qr < 2 /\ m.opcode < 16 /\ m.aa < 2 /\ m.tc < 2 /\ m.rd < 2
    /\ m.ra < 2 /\ m.z < 8 /\ m.rcode < 16

C1_MessageRoundTrip ==
    ( /\ pc = "decoded"
      /\ dec.buf = enc.buf
      /\ FlagsFit(val)
      /\ Len(val.questions) <= 65535
      /\ Len(val.answers) <= 65535 )
    => res = Ok(val)

(***************************************************************************)
(* C3: decoding a strict prefix of an encoded Message fails with the Read  *)
(* error that reports the Decoder offset at the failing read, the length   *)
(* that read asked for and the length of the prefix; it never returns a    *)
(* Message.                                                                *)
(***************************************************************************)
C3_TruncatedFails ==
    (pc = "decoded" /\ Len(dec.buf) < Len(enc.buf)) =>
        /\ res.tag = "Err"
        /\ res.e.kind = "Read"
        /\ res.e.offset = dec.offset
        /\ res.e.buf_len = Len(dec.buf)
        /\ res.e.offset + res.e.read_len > res.e.buf_len

(***************************************************************************)
(* C10: Message::encode on an empty buffer writes the 12-byte header: id   *)
(* big-endian, the two flag bytes with each field taken modulo its width,  *)
(* QDCOUNT = questions.len(), ANCOUNT = answers.len(), nscount, arcount;   *)
(* then every Question in list order and every Record in list order.       *)
(***************************************************************************)
RECURSIVE C10_Body(_, _)
C10_Body(m, i) ==
    IF i > Len(m.questions) + Len(m.answers) THEN <<>>
    ELSE (IF i <= Len(m.questions)
          THEN Question_encode(m.questions[i], Encoder_new(<<>>)).buf
          ELSE Record_encode(m.answers[i - Len(m.questions)], Encoder_new(<<>>)).buf)
         \o C10_Body(m, i + 1)

C5_BitRoundTrip ==
    /\ pc # "failed"
    /\ \A i \in 1..Len(readback) :
           readback[i] = script[i].value % 2^(script[i].width)

(***************************************************************************)
(* C6: a Bit Cursor call fails with BitsWidth when the width is 0 or more  *)
(* than 8, otherwise fails with the overflow error exactly when offset +   *)
(* width exceeds 8; a failed call leaves the byte and the bit offset       *)
(* unchanged, and the bit offset never passes 8.                           *)
(***************************************************************************)
BitCursorNow == IF bres.op = "write" THEN benc ELSE bdec
OverflowErr(o, w) == IF bres.op = "write" THEN BitsWrite(o, w) ELSE BitsRead(o, w)

C6_BitErrors ==
    /\ benc.offset \in 0..8
    /\ bdec.offset \in 0..8
    /\ bres.op # "none" =>
         LET w == bres.width
             o == bres.before.offset
         IN  /\ (w = 0 \/ w > 8) => bres.r = Err(BitsWidth(w))
             /\ (w \in 1..8) =>
                    (bres.r.tag = "Err" <=> o + w > 8)
             /\ (w \in 1..8 /\ o + w > 8) => bres.r = Err(OverflowErr(o, w))
             /\ bres.r.tag # "Ok" => BitCursorNow = bres.before
             /\ bres.r.tag = "Ok" =>
                    /\ BitCursorNow.offset = o + w
                    /\ BitCursorNow.data \in 0..255

C6_Witness ==
    /\ bres.op = "write"
    /\ bres.before.offset = 5
    /\ bres.width = 4
    /\ bres.r = Err(BitsWrite(5, 4))
    /\ benc.data # 0

(***************************************************************************)
(* Messages off the wire.  The bytes of an encoded Message reach the       *)
(* decoder with the QDCOUNT and ANCOUNT fields (header bytes 4-7) as the   *)
(* sender set them, which need not match the sections that follow, and     *)
(* with further bytes behind them.                                         *)
(***************************************************************************)
WireCounts == 0..(MaxQuestions + 1)
WireTails == {<<>>, <<0>>, <<1, 97, 0, 0, 1, 0, 1>>}

WithCounts(buf, qd, an) ==
    [i \in 1..Len(buf) |->
        IF i = 5 THEN qd \div 256 ELSE IF i = 6 THEN qd % 256
        ELSE IF i = 7 THEN an \div 256 ELSE IF i = 8 THEN an % 256
        ELSE buf[i]]

WireReceive(qd, an, more) ==
    /\ pc = "encoded"
    /\ res.tag = "Ok"
    /\ dec' = Decoder_new(WithCounts(enc.buf, qd, an) \o more)
    /\ pc' = "received"
    /\ UNCHANGED <<build, bitVars, val, enc, res>>

NextMsgWire ==
    \/ MessageEncode
    \/ \E qd \in WireCounts, an \in WireCounts, more \in WireTails :
           WireReceive(qd, an, more)
    \/ MessageDecode

SpecMsgWire == InitMsg /\ [][NextMsgWire]_vars

\* The names of m are all non-empty single or multiple labels.
NamesValid(m) ==
    /\ \A i \in 1..Len(m.questions) :
           m.questions[i].name # <<>> /\ ValidName(m.questions[i].name)
    /\ \A i \in 1..Len(m.answers) :
           m.answers[i].name # <<>> /\ ValidName(m.answers[i].name)

Slices == UNION {[1..n -> {1, 2}] : n \in 0..MaxSlice}

InitEncoder ==
    /\ build \in Builds
    /\ pc = "encoder"
    /\ benc = BitEncoder_new(0)
    /\ bdec = BitDecoder_new(0)
    /\ script = <<>>
    /\ readback = <<>>
    /\ bres = NoCall
    /\ val = [op |-> "new", pos |-> 0, b |-> <<>>, before |-> Encoder_new(<<>>)]
    /\ enc = Encoder_new(<<>>)
    /\ dec = Decoder_new(<<>>)
    /\ res = Ok(Unit)

SetOffset(pos) ==
    /\ ~enc.panicked
    /\ enc' = Encoder_set_offset(enc, pos)
    /\ val' = [op |-> "set_offset", pos |-> pos, b |-> <<>>, before |-> enc]
    /\ UNCHANGED <<build, pc, bitVars, dec, res>>

WriteSlice(b) ==
    /\ ~enc.panicked
    /\ Len(enc.buf) + Len(b) <= MaxBuf
    /\ enc' = write_slice(enc, b)
    /\ val' = [op |-> "write_slice", pos |-> 0, b |-> b, before |-> enc]
    /\ UNCHANGED <<build, pc, bitVars, dec, res>>

NextEncoder ==
    \/ \E pos \in 0..(MaxBuf + 1) : SetOffset(pos)
    \/ \E b \in Slices : WriteSlice(b)

SpecEncoder == InitEncoder /\ [][NextEncoder]_vars

(***************************************************************************)
(* C12: Encoder::set_offset(pos) with pos greater than the buffer length   *)
(* zero-fills the gap: the buffer length becomes pos, the bytes it had are *)
(* unchanged, the added bytes are 0 and the offset is pos; with pos at     *)
(* most the buffer length the buffer is unchanged.                         *)
(***************************************************************************)
C12_SetOffsetZeroFills ==
    val.op = "set_offset" =>
        LET old == val.before.buf
        IN  /\ enc.offset = val.pos
            /\ IF val.pos > Len(old)
               THEN /\ Len(enc.buf) = val.pos
                    /\ \A i \in 1..Len(enc.buf) :
                           enc.buf[i] = IF i <= Len(old) THEN old[i] ELSE 0
               ELSE enc.buf = old

(***************************************************************************)
(* C13: Encoder::write_slice(b) called with the offset o between 0 and the *)
(* buffer length L overwrites the positions o..min(o + len(b), L), appends *)
(* the rest of b, leaves every other byte unchanged, makes the length      *)
(* max(L, o + len(b)) and advances the offset to o + len(b).               *)
(***************************************************************************)
C13_WriteSliceFrame ==
    (val.op = "write_slice" /\ val.before.offset <= Len(val.before.buf)) =>
        LET old == val.before.buf
            o == val.before.offset
            n == Len(val.b)
            L == IF Len(old) > o + n THEN Len(old) ELSE o + n
        IN  /\ ~enc.panicked
            /\ enc.offset = o + n
            /\ enc.buf = [i \in 1..L |->
                             IF i > o /\ i <= o + n THEN val.b[i - o] ELSE old[i]]

C13_Witness ==
    /\ val.op = "write_slice"
    /\ val.before.buf = <<1, 1>>
    /\ val.before.offset = 1
    /\ val.b = <<2, 2>>
    /\ enc.buf = <<1, 2, 2>>
    /\ enc.offset = 3

(***************************************************************************)
(* The UDP server of src/main.rs.  It has its own Header, Name, Question,  *)
(* Record and Message types, which write to a Vec<u8> directly.            *)
(***************************************************************************)
HeaderLen == 12

\* Header::from_bytes.  `b[2] >> 6 & 0b00001111` is (b[2] >> 6) & 15.
Header_from_bytes(b) ==
    [id |-> b[1] * 256 + b[2],
     qr |-> BitAnd(b[3] \div 2^7, 1),
     opcode |-> BitAnd(b[3] \div 2^6, 15),
     aa |-> BitAnd(b[3] \div 2^2, 1),
     tc |-> BitAnd(b[3] \div 2^1, 1),
     rd |-> BitAnd(b[3], 1),
     ra |-> BitAnd(b[4] \div 2^7, 1),
     z |-> BitAnd(b[4] \div 2^6, 7),
     rcode |-> BitAnd(b[4], 15),
     qdcount |-> b[5] * 256 + b[6],
     ancount |-> b[7] * 256 + b[8],
     nscount |-> b[9] * 256 + b[10],
     arcount |-> b[11] * 256 + b[12]]

\* Header::new_from_bytes
Header_new_from_bytes(b) == Header_from_bytes(b)

\* Header::to_bytes.  The shift amounts are below 8, so `<<` on u8 only
\* drops the bits shifted out.
Header_to_bytes(h) ==
    LET b2 == BitOr(BitOr(BitOr(BitOr(Shl8(h.qr, 7), Shl8(h.opcode, 6)),
                    Shl8(h.aa, 2)), Shl8(h.tc, 1)), h.rd)
        b3 == BitOr(BitOr(Shl8(h.ra, 7), Shl8(h.z, 6)), Shl8(h.rcode, 3))
    IN  U16Bytes(h.id) \o <<b2, b3>> \o U16Bytes(h.qdcount)
            \o U16Bytes(h.ancount) \o U16Bytes(h.nscount) \o U16Bytes(h.arcount)

\* Name::write_to, Question::write_to and Record::write_to of src/main.rs.
RECURSIVE Main_labels_write_to(_, _)
Main_labels_write_to(labels, i) ==
    IF i > Len(labels) THEN <<>>
    ELSE <<Len(labels[i]) % 256>> \o labels[i] \o Main_labels_write_to(labels, i + 1)

Main_Name_write_to(name) == Main_labels_write_to(Split(name), 1) \o <<0>>
Main_Question_write_to(q) ==
    Main_Name_write_to(q.name) \o U16Bytes(q.qtype) \o U16Bytes(q.class)
Main_Record_write_to(rec) ==
    Main_Name_write_to(rec.name) \o U16Bytes(rec.rtype) \o U16Bytes(rec.class)
        \o U32Bytes(rec.ttl) \o U16Bytes(Len(rec.rdata) % 65536) \o rec.rdata
Main_Message_to_bytes(m) ==
    Header_to_bytes(m.header) \o Main_Question_write_to(m.question)
        \o Main_Record_write_to(m.answer)

\* The response main builds for the request header it parsed.
Response(req_header) ==
    Main_Message_to_bytes(
        [header |-> [id |-> req_header.id, opcode |-> req_header.opcode,
                     rd |-> req_header.rd,
                     rcode |-> IF req_header.opcode = 0 THEN 0 ELSE 4,
                     qr |-> 1, qdcount |-> 1, ancount |-> 1,
                     aa |-> 0, tc |-> 0, ra |-> 0, z |-> 0,
                     nscount |-> 0, arcount |-> 0],
         question |-> [name |-> CodecraftersIo, qtype |-> 1, class |-> 1],
         answer |-> [name |-> CodecraftersIo, rtype |-> 1, class |-> 1,
                     ttl |-> U32(0, 60), rdata |-> <<8, 8, 8, 8>>]])

\* recv_from(&mut buf): the datagram is copied over the start of buf, whose
\* other bytes stay as they were.  Only buf[0..12] is ever read, so buf is
\* held as its first 12 bytes.
recv_from(buf, datagram) ==
    [i \in 1..HeaderLen |-> IF i <= Len(datagram) THEN datagram[i] ELSE buf[i]]

(***************************************************************************)
(* Two runs of the server side by side, A and B.  In each step each run    *)
(* receives its next datagram and sends its reply.  val holds the number   *)
(* of datagrams received and the two receive buffers, dec the last         *)
(* datagram of each run and res the last reply of each run.                *)
(***************************************************************************)
Datagrams ==
    { <<>>,
      <<171, 205, 9>>,
      <<18, 52, 0, 0, 0, 1, 0, 0, 0, 0, 0, 0>>,
      <<18, 52, 9, 0, 0, 1, 0, 0, 0, 0, 0, 0>>,
      <<86, 120, 121, 255, 0, 1, 0, 0, 0, 0, 0, 0>>,
      <<171, 205, 168, 0, 0, 1, 0, 0, 0, 0, 0, 0, 7>> }

InitServer ==
    /\ build \in Builds
    /\ pc = "recv_from"
    /\ benc = BitEncoder_new(0)
    /\ bdec = BitDecoder_new(0)
    /\ script = <<>>
    /\ readback = <<>>
    /\ bres = NoCall
    /\ val = [n |-> 0, A |-> Zeros(HeaderLen), B |-> Zeros(HeaderLen)]
    /\ enc = Encoder_new(<<>>)
    /\ dec = [A |-> <<>>, B |-> <<>>]
    /\ res = [A |-> <<>>, B |-> <<>>]

\* One turn of the loop in each run: Ok((size, source)) from recv_from, the
\* request header parsed from buf[0..12], the response sent to the source.
Serve(dA, dB) ==
    /\ pc = "recv_from"
    /\ val.n < MaxDatagrams
    /\ val' = [n |-> val.n + 1, A |-> recv_from(val.A, dA), B |-> recv_from(val.B, dB)]
    /\ dec' = [A |-> dA, B |-> dB]
    /\ res' = [A |-> Response(Header_new_from_bytes(val'.A)),
               B |-> Response(Header_new_from_bytes(val'.B))]
    /\ UNCHANGED <<build, pc, bitVars, enc>>

\* Err(e) from recv_from: the loop breaks and main returns.
RecvError ==
    /\ pc = "recv_from"
    /\ pc' = "exit"
    /\ UNCHANGED <<build, bitVars, codecVars>>

NextServer ==
    \/ \E dA \in Datagrams, dB \in Datagrams : Serve(dA, dB)
    \/ RecvError

SpecServer == InitServer /\ [][NextServer]_vars

(***************************************************************************)
(* C14: for every received datagram of at least 12 bytes the reply has the *)
(* request's ID, QR = 1, the request's OPCODE (bits 6..3 of byte 2) and RD *)
(* (bit 0 of byte 2), and RCODE (low 4 bits of byte 3) 0 when the          *)
(* request's OPCODE is 0 and 4 otherwise.                                  *)
(***************************************************************************)
C14_Opcode(b) == (b[3] \div 8) % 16

C14_ReplyHeader ==
    (val.n > 0 /\ Len(dec.A) >= 12) =>
        /\ Len(res.A) >= 12
        /\ SubSeq(res.A, 1, 2) = SubSeq(dec.A, 1, 2)
        /\ res.A[3] \div 128 = 1
        /\ C14_Opcode(res.A) = C14_Opcode(dec.A)
        /\ res.A[3] % 2 = dec.A[3] % 2
        /\ res.A[4] % 16 = IF C14_Opcode(dec.A) = 0 THEN 0 ELSE 4

(***************************************************************************)
(* C15: the reply to a datagram is determined by that datagram alone: two  *)
(* runs that receive the same datagram as their n-th datagram send the     *)
(* same n-th reply, whatever they received before.                         *)
(***************************************************************************)
C15_ReplyDeterminedByDatagram ==
    (val.n > 0 /\ dec.A = dec.B) => res.A = res.B

(***************************************************************************)
(* Decoder::read_label called again and again on one buffer, until it      *)
(* fails.  dec is the decoder, val the decoder as it was before the last   *)
(* call and res the result of the last call.                               *)
(***************************************************************************)
LabelBytes == {0, 1, 2, 97, 192, 193}
LabelBufs == UNION {[1..n -> LabelBytes] : n \in 0..MaxLabelBuf}

InitLabel ==
    /\ build \in Builds
    /\ pc = "read_label"
    /\ benc = BitEncoder_new(0)
    /\ bdec = BitDecoder_new(0)
    /\ script = <<>>
    /\ readback = <<>>
    /\ bres = NoCall
    /\ enc = Encoder_new(<<>>)
    /\ \E buf \in LabelBufs : dec = Decoder_new(buf)
    /\ val = [n |-> 0, before |-> dec]
    /\ res = NoCall

ReadLabel ==
    /\ pc = "read_label"
    /\ val.n < MaxLabelBuf + 1
    /\ val.n > 0 => res.tag = "Ok"
    /\ val' = [n |-> val.n + 1, before |-> dec]
    /\ dec' = read_label(dec).dec
    /\ res' = read_label(dec).r
    /\ UNCHANGED <<build, pc, bitVars, enc>>

NextLabel == ReadLabel

SpecLabel == InitLabel /\ [][NextLabel]_vars

\* The last call met a compression pointer: both of its bytes are in the
\* buffer and the first has its two top bits set.
OnPointer ==
    /\ val.n > 0
    /\ val.before.offset + 2 <= Len(val.before.buf)
    /\ BitAnd(val.before.buf[val.before.offset + 1], 192) = 192

PointerTarget ==
    BitAnd(val.before.buf[val.before.offset + 1], 63) * 256
        + val.before.buf[val.before.offset + 2]

(***************************************************************************)
(* C16: read_label on a compression pointer never fails because of its     *)
(* target.  It consumes exactly the two pointer bytes, leaves the label    *)
(* table as it was and returns Ok with the table's entry for the 14-bit    *)
(* target; when the table has no entry for the target it returns Ok with   *)
(* no label, as for the zero terminator.  The buffer at the target is not  *)
(* read, and every successful call moves the offset forward.               *)
(***************************************************************************)
C16_PointerNeverFails ==
    /\ OnPointer =>
          /\ res.tag = "Ok"
          /\ dec.offset = val.before.offset + 2
          /\ dec.buf = val.before.buf
          /\ dec.labels = val.before.labels
          /\ PointerTarget \in DOMAIN val.before.labels
                => res = Ok(Some(val.before.labels[PointerTarget]))
          /\ PointerTarget \notin DOMAIN val.before.labels => res = Ok(None)
    /\ (val.n > 0 /\ res.tag = "Ok") => dec.offset > val.before.offset

\* The label "a" was read at offset 0; the pointer at offset 2 points at
\* itself, where the table has no entry.
C16_Witness ==
    /\ OnPointer
    /\ val.before.buf = <<1, 97, 192, 2>>
    /\ val.before.offset = 2
    /\ DOMAIN val.before.labels = {0}
    /\ res = Ok(None)
    /\ dec.offset = 4

====
